---- MODULE Spec2Model ----
(***************************************************************************)
(* Model of risc_v/src/gpu.rs: the virtio GPU negotiation                  *)
(* (setup_gpu_device), the device registry GPU_DEVICES and the CtrlType    *)
(* discriminants.                                                          *)
(*                                                                         *)
(* setup_gpu_device is modelled one volatile register access (or one       *)
(* allocator call, or one registry store) per step, so that calls made by  *)
(* different callers can interleave.  Under Spec one caller (Boot) makes   *)
(* the calls one after the other; under ConcSpec every caller of Callers   *)
(* runs, on distinct addresses.                                            *)
(*                                                                         *)
(* Heap addresses are kept in page units (address = page * PAGE_SIZE):     *)
(* zalloc returns page-aligned addresses and the model has to hold         *)
(* addresses of more than 32 bits.  MMIO addresses are kept in bytes.      *)
(***************************************************************************)
EXTENDS Integers, Sequences, FiniteSets, TLC

(* ------------------------------ bounds -------------------------------- *)

\* Number of setup_gpu_device calls made in one behaviour.
MaxCalls == 2

(* ------------------- constants of crate::virtio / page ---------------- *)

MMIO_VIRTIO_START == 268439552      \* 0x1000_1000
PAGE_SIZE == 4096
VIRTIO_RING_SIZE == 256
SIZE_OF_QUEUE == 4097               \* size_of::<Queue>()

\* StatusField::*.val32()
Acknowledge == 1
Driver == 2
DriverOk == 4
FeaturesOk == 8
Failed == 128

\* 2^32 / PAGE_SIZE: the number of pages a u32 address can reach.
U32_PAGES == 1048576

(* ------------------------------ helpers ------------------------------- *)

\* `|=` written as `=`
BitOrAsAssign(a, b) == b

RECURSIVE BitOr(_, _)
BitOr(a, b) ==
    IF a = 0 THEN b
    ELSE IF b = 0 THEN a
    ELSE (IF a % 2 = 1 \/ b % 2 = 1 THEN 1 ELSE 0) + 2 * BitOr(a \div 2, b \div 2)

RECURSIVE BitAnd(_, _)
BitAnd(a, b) ==
    IF a = 0 \/ b = 0 THEN 0
    ELSE (IF a % 2 = 1 /\ b % 2 = 1 THEN 1 ELSE 0) + 2 * BitAnd(a \div 2, b \div 2)

\* StatusField::features_ok(sf)
features_ok(sf) == BitAnd(sf, FeaturesOk) # 0

\* Option<Device>
None == [tag |-> "None"]
Some(d) == [tag |-> "Some", val |-> d]

\* struct Device, as built at the end of setup_gpu_device
Device(queue_ptr, p) == [queue |-> queue_ptr, dev |-> p, idx |-> 0, ack_used_idx |-> 0]

\* GPU_DEVICES: [Option<Device>; 8]
NumSlots == 8
Slots == 0 .. (NumSlots - 1)

\* GPU_DEVICES[idx] = Some(dev);
StoreIfEmpty(reg, i, d) == IF reg[i] = None THEN [reg EXCEPT ![i] = Some(d)] ELSE reg
Store(reg, i, d) == [reg EXCEPT ![i] = Some(d)]

\* let idx = (ptr as usize - virtio::MMIO_VIRTIO_START) >> 12;
IdxWrongShift(p) == (p - MMIO_VIRTIO_START) \div 65536
Idx(p) == (p - MMIO_VIRTIO_START) \div 4096

\* let num_pages = (size_of::<Queue>() + PAGE_SIZE - 1) / PAGE_SIZE;
NumPages(size) == (size + PAGE_SIZE - 1) \div PAGE_SIZE

\* ptr.add(GuestFeatures).write_volatile(host_features)
GuestFeaturesMasked(hf) == BitAnd(hf, 1)
GuestFeaturesValue(hf) == hf

\* if false == StatusField::features_ok(status_ok)
FeaturesRejectedInverted(status) == TRUE = features_ok(status)
FeaturesRejected(status) == FALSE = features_ok(status)

\* if VIRTIO_RING_SIZE as u32 > qnmax
QueueSizeFailOffByOne(q) == VIRTIO_RING_SIZE >= q
QueueSizeFailReversed(q) == q > VIRTIO_RING_SIZE
QueueSizeFail(q) == VIRTIO_RING_SIZE > q

\* The value each return site of setup_gpu_device returns.
ReturnValueAlwaysFalse(site) == FALSE
ReturnValue(site) ==
    CASE site = "features_fail" -> FALSE
      [] site = "queue_size_fail" -> FALSE
      [] site = "live" -> TRUE

\* (queue_ptr as u32) / PAGE_SIZE as u32, for queue_ptr = pg * PAGE_SIZE
QueuePfnValue(pg) == pg % U32_PAGES

(* ------------------------- the environment ---------------------------- *)

Callers == {1, 2}
Boot == CHOOSE c \in Callers : \A d \in Callers : c <= d

\* The MMIO windows the bus scanner hands to setup_gpu_device: indices 0, 3
\* and 8 (the last one lies past the 8 slots of GPU_DEVICES).
\* Every address is at or above MMIO_VIRTIO_START, so the subtraction in the
\* index computation does not wrap.
Addrs == { MMIO_VIRTIO_START + 4096 * k : k \in {0, 3, 8} }

\* What the device answers to a read of HostFeatures and of QueueNumMax.
HostFeaturesSet == {0, 5}
QueueNumMaxSet == {64, 256, 512}

\* What the device answers to the Status read-back: the value written, or
\* that value with FEATURES_OK cleared.
StatusReadSet(written) ==
    {written} \cup (IF features_ok(written) THEN {written - FeaturesOk} ELSE {})

\* The pages of the heap; 0 is the null pointer.  Two of them lie at
\* addresses of more than 32 bits.
HeapPages == {16, 17, U32_PAGES + 16, U32_PAGES + 17}

\* zalloc(n): the base of n contiguous free pages, or null.
FreeRuns(alloc, n) ==
    { b \in HeapPages : \A i \in 0 .. (n - 1) : (b + i) \in (HeapPages \ alloc) }
ZallocResults(alloc, n) == {0} \cup FreeRuns(alloc, n)

Regs == {"Status", "GuestFeatures", "QueueNum", "QueueSel", "GuestPageSize", "QueuePfn"}

(* ------------------------------ CtrlType ------------------------------ *)

\* enum CtrlType as declared: name and explicit discriminant (-1: none).
CtrlTypeDeclNoErrBase ==
    << <<"CmdGetDisplayInfo", 256>>, <<"CmdResourceCreate2d", -1>>,
       <<"CmdResourceUref", -1>>, <<"CmdSetScanout", -1>>,
       <<"CmdResourceFlush", -1>>, <<"CmdTransferToHost2d", -1>>,
       <<"CmdResourceAttachBacking", -1>>, <<"CmdResourceDetachBacking", -1>>,
       <<"CmdGetCapsetInfo", -1>>, <<"CmdGetCapset", -1>>, <<"CmdGetEdid", -1>>,
       <<"CmdUpdateCursor", 768>>, <<"CmdMoveCursor", -1>>,
       <<"RespOkNoData", 4352>>, <<"RespOkDisplayInfo", -1>>,
       <<"RespOkCapsetInfo", -1>>, <<"RespOkCapset", -1>>, <<"RespOkEdid", -1>>,
       <<"RespErrUnspec", -1>>, <<"RespErrOutOfMemory", -1>>,
       <<"RespErrInvalidScanoutId", -1>>, <<"RespErrInvalidResourceId", -1>>,
       <<"RespErrInvalidContextId", -1>>, <<"RespErrInvalidParameter", -1>> >>
CtrlTypeDecl ==
    << <<"CmdGetDisplayInfo", 256>>, <<"CmdResourceCreate2d", -1>>,
       <<"CmdResourceUref", -1>>, <<"CmdSetScanout", -1>>,
       <<"CmdResourceFlush", -1>>, <<"CmdTransferToHost2d", -1>>,
       <<"CmdResourceAttachBacking", -1>>, <<"CmdResourceDetachBacking", -1>>,
       <<"CmdGetCapsetInfo", -1>>, <<"CmdGetCapset", -1>>, <<"CmdGetEdid", -1>>,
       <<"CmdUpdateCursor", 768>>, <<"CmdMoveCursor", -1>>,
       <<"RespOkNoData", 4352>>, <<"RespOkDisplayInfo", -1>>,
       <<"RespOkCapsetInfo", -1>>, <<"RespOkCapset", -1>>, <<"RespOkEdid", -1>>,
       <<"RespErrUnspec", 4608>>, <<"RespErrOutOfMemory", -1>>,
       <<"RespErrInvalidScanoutId", -1>>, <<"RespErrInvalidResourceId", -1>>,
       <<"RespErrInvalidContextId", -1>>, <<"RespErrInvalidParameter", -1>> >>

CtrlTypeIdx == 1 .. Len(CtrlTypeDecl)

\* The discriminant of the i-th variant of a #[repr(u32)] enum: the explicit
\* value if there is one, else one more than the previous variant's (0 for
\* the first).
RECURSIVE Discriminant(_)
Discriminant(i) ==
    IF CtrlTypeDecl[i][2] # -1 THEN CtrlTypeDecl[i][2]
    ELSE IF i = 1 THEN 0
    ELSE Discriminant(i - 1) + 1

VariantIdx(name) == CHOOSE i \in CtrlTypeIdx : CtrlTypeDecl[i][1] = name

(* ------------------------------- state -------------------------------- *)

VARIABLES
    GPU_DEVICES,    \* static mut GPU_DEVICES: slot -> Option<Device>
    mmio,           \* address -> register -> the last value written to it
    seen,           \* address -> the writes the device received since its last reset
    allocated,      \* the heap pages zalloc has handed out
    calls,          \* number of calls of setup_gpu_device started
    succeeded,      \* the addresses for which some call has returned true
    owner,          \* address -> the caller of the latest call for it (0: none)
    pc,             \* caller -> position in setup_gpu_device
    ptr,            \* caller -> the argument of its call
    status_bits,    \* caller -> local status_bits
    host_features,  \* caller -> local host_features
    status_ok,      \* caller -> local status_ok
    qnmax,          \* caller -> local qnmax
    queue_ptr,      \* caller -> local queue_ptr (in pages)
    result,         \* caller -> the value its last call returned
    trace,          \* caller -> what its current call has done so far
    pre,            \* caller -> GPU_DEVICES as it was when its call began
    ct_in,          \* the pair of CtrlType variants being converted
    ct_out          \* their u32 values (`variant as u32`)

shared == <<GPU_DEVICES, mmio, seen, allocated, calls, succeeded, owner>>
locals == <<ptr, status_bits, host_features, status_ok, qnmax, queue_ptr>>
ctvars == <<ct_in, ct_out>>
vars == <<GPU_DEVICES, mmio, seen, allocated, calls, succeeded, owner, pc, ptr,
          status_bits, host_features, status_ok, qnmax, queue_ptr, result,
          trace, pre, ct_in, ct_out>>

Ev(op, reg, val) == [op |-> op, reg |-> reg, val |-> val]

Running(c) == pc[c] \notin {"idle", "done", "panic"}

InitNegotiation ==
    /\ GPU_DEVICES = [i \in Slots |-> None]
    /\ mmio = [a \in Addrs |-> [r \in Regs |-> 0]]
    /\ seen = [a \in Addrs |-> << >>]
    /\ allocated = {}
    /\ calls = 0
    /\ succeeded = {}
    /\ owner = [a \in Addrs |-> 0]
    /\ pc = [c \in Callers |-> "idle"]
    /\ ptr = [c \in Callers |-> MMIO_VIRTIO_START]
    /\ status_bits = [c \in Callers |-> 0]
    /\ host_features = [c \in Callers |-> 0]
    /\ status_ok = [c \in Callers |-> 0]
    /\ qnmax = [c \in Callers |-> 0]
    /\ queue_ptr = [c \in Callers |-> 0]
    /\ result = [c \in Callers |-> FALSE]
    /\ trace = [c \in Callers |-> << >>]
    /\ pre = [c \in Callers |-> [i \in Slots |-> None]]

Init ==
    /\ InitNegotiation
    /\ ct_in = <<1, 1>>
    /\ ct_out = << >>

(* --------------------------- register access -------------------------- *)

\* ptr.add(reg).write_volatile(val) by caller c.  A write of 0 to Status
\* resets the device, which forgets what it had received.
WriteReg(c, reg, val) ==
    /\ mmio' = [mmio EXCEPT ![ptr[c]][reg] = val]
    /\ seen' = [seen EXCEPT ![ptr[c]] =
                    IF reg = "Status" /\ val = 0 THEN << <<reg, val>> >>
                    ELSE Append(@, <<reg, val>>)]
    /\ trace' = [trace EXCEPT ![c] = Append(@, Ev("W", reg, val))]

\* ptr.add(reg).read_volatile() by caller c, the device answering val.
ReadReg(c, reg, val) ==
    /\ trace' = [trace EXCEPT ![c] = Append(@, Ev("R", reg, val))]
    /\ UNCHANGED <<mmio, seen>>

Goto(c, label) == pc' = [pc EXCEPT ![c] = label]

(* ------------------------- setup_gpu_device --------------------------- *)

\* Entry: caller c calls setup_gpu_device(p).  No two callers negotiate the
\* same address at the same time.
Call(c, p) ==
    /\ pc[c] \in {"idle", "done"}
    /\ calls < MaxCalls
    /\ \A d \in Callers \ {c} : Running(d) => ptr[d] # p
    /\ calls' = calls + 1
    /\ ptr' = [ptr EXCEPT ![c] = p]
    /\ status_bits' = [status_bits EXCEPT ![c] = 0]
    /\ host_features' = [host_features EXCEPT ![c] = 0]
    /\ status_ok' = [status_ok EXCEPT ![c] = 0]
    /\ qnmax' = [qnmax EXCEPT ![c] = 0]
    /\ queue_ptr' = [queue_ptr EXCEPT ![c] = 0]
    /\ trace' = [trace EXCEPT ![c] = << >>]
    /\ pre' = [pre EXCEPT ![c] = GPU_DEVICES]
    /\ owner' = [owner EXCEPT ![p] = c]
    /\ Goto(c, "reset")
    /\ UNCHANGED <<GPU_DEVICES, mmio, seen, allocated, succeeded, result, ctvars>>

\* 1. Reset the device (write 0 into status)
WriteReset(c) ==
    /\ pc[c] = "reset"
    /\ WriteReg(c, "Status", 0)
    /\ Goto(c, "acknowledge")
    /\ UNCHANGED <<GPU_DEVICES, allocated, calls, succeeded, owner, locals, result, pre, ctvars>>

\* 2. Set ACKNOWLEDGE status bit
WriteAcknowledge(c) ==
    /\ pc[c] = "acknowledge"
    /\ status_bits' = [status_bits EXCEPT ![c] = Acknowledge]
    /\ WriteReg(c, "Status", Acknowledge)
    /\ Goto(c, "driver")
    /\ UNCHANGED <<GPU_DEVICES, allocated, calls, succeeded, owner, ptr, host_features,
                   status_ok, qnmax, queue_ptr, result, pre, ctvars>>

\* 3. Set the DRIVER status bit (the code ORs in StatusField::DriverOk)
WriteDriver(c) ==
    /\ pc[c] = "driver"
    /\ status_bits' = [status_bits EXCEPT ![c] = BitOr(@, DriverOk)]
    /\ WriteReg(c, "Status", status_bits'[c])
    /\ Goto(c, "read_features")
    /\ UNCHANGED <<GPU_DEVICES, allocated, calls, succeeded, owner, ptr, host_features,
                   status_ok, qnmax, queue_ptr, result, pre, ctvars>>

\* 4. Read device feature bits ...
ReadHostFeatures(c) ==
    /\ pc[c] = "read_features"
    /\ \E v \in HostFeaturesSet :
          /\ host_features' = [host_features EXCEPT ![c] = v]
          /\ ReadReg(c, "HostFeatures", v)
    /\ Goto(c, "write_features")
    /\ UNCHANGED <<GPU_DEVICES, allocated, calls, succeeded, owner, ptr, status_bits,
                   status_ok, qnmax, queue_ptr, result, pre, ctvars>>

\* ... write them to the device.
WriteGuestFeatures(c) ==
    /\ pc[c] = "write_features"
    /\ WriteReg(c, "GuestFeatures", GuestFeaturesValue(host_features[c]))
    /\ Goto(c, "features_ok")
    /\ UNCHANGED <<GPU_DEVICES, allocated, calls, succeeded, owner, locals, result, pre, ctvars>>

\* 5. Set the FEATURES_OK status bit
WriteFeaturesOk(c) ==
    /\ pc[c] = "features_ok"
    /\ status_bits' = [status_bits EXCEPT ![c] = BitOr(@, FeaturesOk)]
    /\ WriteReg(c, "Status", status_bits'[c])
    /\ Goto(c, "read_status")
    /\ UNCHANGED <<GPU_DEVICES, allocated, calls, succeeded, owner, ptr, host_features,
                   status_ok, qnmax, queue_ptr, result, pre, ctvars>>

\* 6. Re-read status to ensure FEATURES_OK is still set.
ReadStatus(c) ==
    /\ pc[c] = "read_status"
    /\ \E v \in StatusReadSet(mmio[ptr[c]]["Status"]) :
          /\ status_ok' = [status_ok EXCEPT ![c] = v]
          /\ ReadReg(c, "Status", v)
          /\ Goto(c, IF FeaturesRejected(v) THEN "features_fail" ELSE "read_qnmax")
    /\ UNCHANGED <<GPU_DEVICES, allocated, calls, succeeded, owner, ptr, status_bits,
                   host_features, qnmax, queue_ptr, result, pre, ctvars>>

\* if false == features_ok(status_ok) { write Failed; return false; }
FeaturesFail(c) ==
    /\ pc[c] = "features_fail"
    /\ WriteReg(c, "Status", Failed)
    /\ result' = [result EXCEPT ![c] = ReturnValue("features_fail")]
    /\ succeeded' = IF result'[c] THEN succeeded \cup {ptr[c]} ELSE succeeded
    /\ Goto(c, "done")
    /\ UNCHANGED <<GPU_DEVICES, allocated, calls, owner, locals, pre, ctvars>>

\* 7. let qnmax = QueueNumMax.read_volatile()
ReadQueueNumMax(c) ==
    /\ pc[c] = "read_qnmax"
    /\ \E v \in QueueNumMaxSet :
          /\ qnmax' = [qnmax EXCEPT ![c] = v]
          /\ ReadReg(c, "QueueNumMax", v)
    /\ Goto(c, "write_qnum")
    /\ UNCHANGED <<GPU_DEVICES, allocated, calls, succeeded, owner, ptr, status_bits,
                   host_features, status_ok, queue_ptr, result, pre, ctvars>>

\* QueueNum.write_volatile(VIRTIO_RING_SIZE)
WriteQueueNum(c) ==
    /\ pc[c] = "write_qnum"
    /\ WriteReg(c, "QueueNum", VIRTIO_RING_SIZE)
    /\ Goto(c, IF QueueSizeFail(qnmax[c]) THEN "queue_size_fail" ELSE "queue_sel")
    /\ UNCHANGED <<GPU_DEVICES, allocated, calls, succeeded, owner, locals, result, pre, ctvars>>

\* if VIRTIO_RING_SIZE > qnmax { return false; }
QueueSizeFailReturn(c) ==
    /\ pc[c] = "queue_size_fail"
    /\ result' = [result EXCEPT ![c] = ReturnValue("queue_size_fail")]
    /\ succeeded' = IF result'[c] THEN succeeded \cup {ptr[c]} ELSE succeeded
    /\ Goto(c, "done")
    /\ UNCHANGED <<GPU_DEVICES, mmio, seen, allocated, calls, owner, locals, trace, pre, ctvars>>

\* QueueSel.write_volatile(0)
WriteQueueSel(c) ==
    /\ pc[c] = "queue_sel"
    /\ WriteReg(c, "QueueSel", 0)
    /\ Goto(c, "zalloc")
    /\ UNCHANGED <<GPU_DEVICES, allocated, calls, succeeded, owner, locals, result, pre, ctvars>>

\* let queue_ptr = zalloc(num_pages) as *mut Queue;
Zalloc(c) ==
    /\ pc[c] = "zalloc"
    /\ LET n == NumPages(SIZE_OF_QUEUE) IN
       \E b \in ZallocResults(allocated, n) :
          /\ queue_ptr' = [queue_ptr EXCEPT ![c] = b]
          /\ allocated' = IF b = 0 THEN allocated
                          ELSE allocated \cup { b + i : i \in 0 .. (n - 1) }
          /\ trace' = [trace EXCEPT ![c] = Append(@, Ev("zalloc", "pages", b))]
    /\ Goto(c, "page_size")
    /\ UNCHANGED <<GPU_DEVICES, mmio, seen, calls, succeeded, owner, ptr, status_bits,
                   host_features, status_ok, qnmax, result, pre, ctvars>>

\* GuestPageSize.write_volatile(PAGE_SIZE)
WriteGuestPageSize(c) ==
    /\ pc[c] = "page_size"
    /\ WriteReg(c, "GuestPageSize", PAGE_SIZE)
    /\ Goto(c, "queue_pfn")
    /\ UNCHANGED <<GPU_DEVICES, allocated, calls, succeeded, owner, locals, result, pre, ctvars>>

\* QueuePfn.write_volatile(queue_pfn / PAGE_SIZE)
WriteQueuePfn(c) ==
    /\ pc[c] = "queue_pfn"
    /\ WriteReg(c, "QueuePfn", QueuePfnValue(queue_ptr[c]))
    /\ Goto(c, "driver_ok")
    /\ UNCHANGED <<GPU_DEVICES, allocated, calls, succeeded, owner, locals, result, pre, ctvars>>

\* 8. Set the DRIVER_OK status bit. Device is now "live"
WriteDriverOk(c) ==
    /\ pc[c] = "driver_ok"
    /\ status_bits' = [status_bits EXCEPT ![c] = BitOr(@, DriverOk)]
    /\ WriteReg(c, "Status", status_bits'[c])
    /\ Goto(c, "register")
    /\ UNCHANGED <<GPU_DEVICES, allocated, calls, succeeded, owner, ptr, host_features,
                   status_ok, qnmax, queue_ptr, result, pre, ctvars>>

\* GPU_DEVICES[idx] = Some(dev); true
Register(c) ==
    /\ pc[c] = "register"
    /\ Idx(ptr[c]) \in Slots
    /\ GPU_DEVICES' = Store(GPU_DEVICES, Idx(ptr[c]), Device(queue_ptr[c], ptr[c]))
    /\ trace' = [trace EXCEPT ![c] = Append(@, Ev("store", "GPU_DEVICES", Idx(ptr[c])))]
    /\ result' = [result EXCEPT ![c] = ReturnValue("live")]
    /\ succeeded' = IF result'[c] THEN succeeded \cup {ptr[c]} ELSE succeeded
    /\ Goto(c, "done")
    /\ UNCHANGED <<mmio, seen, allocated, calls, owner, locals, pre, ctvars>>

\* GPU_DEVICES[idx] with idx >= 8: the bounds check panics.
RegisterPanic(c) ==
    /\ pc[c] = "register"
    /\ Idx(ptr[c]) \notin Slots
    /\ Goto(c, "panic")
    /\ UNCHANGED <<shared, locals, result, trace, pre, ctvars>>

Step(c) ==
    \/ \E p \in Addrs : Call(c, p)
    \/ WriteReset(c)
    \/ WriteAcknowledge(c)
    \/ WriteDriver(c)
    \/ ReadHostFeatures(c)
    \/ WriteGuestFeatures(c)
    \/ WriteFeaturesOk(c)
    \/ ReadStatus(c)
    \/ FeaturesFail(c)
    \/ ReadQueueNumMax(c)
    \/ WriteQueueNum(c)
    \/ QueueSizeFailReturn(c)
    \/ WriteQueueSel(c)
    \/ Zalloc(c)
    \/ WriteGuestPageSize(c)
    \/ WriteQueuePfn(c)
    \/ WriteDriverOk(c)
    \/ Register(c)
    \/ RegisterPanic(c)

\* One caller, one call after the other.
Next == Step(Boot)

Spec == Init /\ [][Next]_vars

\* Independent callers, each on its own address.
ConcNext == \E c \in Callers : Step(c)

ConcSpec == Init /\ [][ConcNext]_vars

(* ---------------------- CtrlType as a wire value ----------------------- *)

\* `variant as u32` for the two variants drawn.
AsU32 ==
    /\ ct_out = << >>
    /\ ct_out' = << Discriminant(ct_in[1]), Discriminant(ct_in[2]) >>
    /\ UNCHANGED <<shared, pc, locals, result, trace, pre, ct_in>>

CtrlInit ==
    /\ InitNegotiation
    /\ ct_in \in CtrlTypeIdx \X CtrlTypeIdx
    /\ ct_out = << >>

CtrlNext == AsU32

CtrlSpec == CtrlInit /\ [][CtrlNext]_vars

TypeOK ==
    /\ \A i \in Slots : GPU_DEVICES[i].tag \in {"None", "Some"}
    /\ allocated \subseteq HeapPages
    /\ calls \in 0 .. MaxCalls
    /\ succeeded \subseteq Addrs
    /\ \A c \in Callers : ptr[c] \in Addrs /\ result[c] \in BOOLEAN

(* ------------------------- reading a trace ---------------------------- *)

\* The positions of a call's trace holding an event of the given kind.
Pos(tr, op, reg) == { i \in DOMAIN tr : tr[i].op = op /\ tr[i].reg = reg }

\* The values the call wrote to Status, in order.
RECURSIVE StatusWrites(_)
StatusWrites(tr) ==
    IF tr = << >> THEN << >>
    ELSE LET e == tr[Len(tr)]
             front == StatusWrites(SubSeq(tr, 1, Len(tr) - 1))
         IN IF e.op = "W" /\ e.reg = "Status" THEN Append(front, e.val) ELSE front

Started(c) == pc[c] # "idle"
InRange(c) == Idx(ptr[c]) \in Slots

(* -------------------------------- C1 ---------------------------------- *)

\* C1: when the Status value read back lacks FEATURES_OK, the call writes
\* Status = FAILED as its next and last access, returns false, and does
\* nothing else: no further register access, no allocation, no registry
\* store, the registry as it was when the call began.
C1_FeatureRejectionIsTerminal ==
    \A c \in Callers :
      \A i \in Pos(trace[c], "R", "Status") :
        ~features_ok(trace[c][i].val) =>
          /\ Len(trace[c]) <= i + 1
          /\ Len(trace[c]) = i => pc[c] = "features_fail"
          /\ Len(trace[c]) = i + 1 =>
                /\ trace[c][i + 1] = Ev("W", "Status", Failed)
                /\ pc[c] = "done"
                /\ result[c] = FALSE
          /\ Pos(trace[c], "zalloc", "pages") = {}
          /\ Pos(trace[c], "store", "GPU_DEVICES") = {}
          /\ GPU_DEVICES = pre[c]

C1_Witness ==
    \E c \in Callers :
      /\ pc[c] = "done"
      /\ \E i \in Pos(trace[c], "R", "Status") : ~features_ok(trace[c][i].val)
      /\ mmio[ptr[c]]["Status"] = Failed

(* -------------------------------- C2 ---------------------------------- *)

\* C2: a call that read a QueueNumMax smaller than VIRTIO_RING_SIZE never
\* calls zalloc and returns false; any zalloc of a call comes after a read
\* of QueueNumMax that passed the ring-size check.
C2_NoAllocationOnSmallQueue ==
    \A c \in Callers :
      /\ \A i \in Pos(trace[c], "R", "QueueNumMax") :
            trace[c][i].val < VIRTIO_RING_SIZE =>
              /\ Pos(trace[c], "zalloc", "pages") = {}
              /\ pc[c] \in {"write_qnum", "queue_size_fail", "done"}
              /\ pc[c] = "done" => result[c] = FALSE
      /\ \A j \in Pos(trace[c], "zalloc", "pages") :
            \E i \in Pos(trace[c], "R", "QueueNumMax") :
              i < j /\ trace[c][i].val >= VIRTIO_RING_SIZE

C2_Witness ==
    \E c \in Callers :
      /\ pc[c] = "done"
      /\ \E i \in Pos(trace[c], "R", "QueueNumMax") : trace[c][i].val < VIRTIO_RING_SIZE
      /\ allocated = {}

(* -------------------------------- C3 ---------------------------------- *)

\* C3: whenever a call has returned false, the last value it wrote to
\* Status has the FAILED bit set.
C3_FailedStatusOnEveryFailure ==
    \A c \in Callers :
      (pc[c] = "done" /\ result[c] = FALSE) =>
        LET w == StatusWrites(trace[c])
        IN w # << >> /\ BitAnd(w[Len(w)], Failed) # 0

(* -------------------------------- C4 ---------------------------------- *)

\* C4: when a call has returned false, each of the 8 slots of GPU_DEVICES
\* holds what it held when the call began.
C4_FailureLeavesRegistry ==
    \A c \in Callers :
      (pc[c] = "done" /\ result[c] = FALSE) =>
        \A i \in Slots : GPU_DEVICES[i] = pre[c][i]

C4_Witness ==
    \E c \in Callers :
      /\ pc[c] = "done"
      /\ result[c] = FALSE
      /\ \E i \in Slots : GPU_DEVICES[i] # None

(* -------------------------------- C5 ---------------------------------- *)

\* C5 (as claimed): when the most recent call for an address has returned
\* false, the slot of that address is None.
C5_FailureEmptiesSlot ==
    \A c \in Callers :
      (pc[c] = "done" /\ result[c] = FALSE /\ InRange(c)) =>
        GPU_DEVICES[Idx(ptr[c])] = None

\* C5 (amended): when the most recent call for an address has returned
\* false, the slot of that address is None if no call for that address has
\* ever returned true, and otherwise still holds the handle of that address
\* that it held when the failed call began.
C5_FailureKeepsSlot ==
    \A c \in Callers :
      (pc[c] = "done" /\ result[c] = FALSE /\ InRange(c)) =>
        LET slot == GPU_DEVICES[Idx(ptr[c])]
        IN IF ptr[c] \in succeeded
             THEN slot = pre[c][Idx(ptr[c])] /\ slot.tag = "Some" /\ slot.val.dev = ptr[c]
             ELSE slot = None

C5_Witness ==
    \E c \in Callers :
      /\ pc[c] = "done"
      /\ result[c] = FALSE
      /\ InRange(c)
      /\ ptr[c] \in succeeded
      /\ GPU_DEVICES[Idx(ptr[c])] # None

(* -------------------------------- C6 ---------------------------------- *)

\* The device accepted the negotiation of this trace: the Status read back
\* has FEATURES_OK and the ring size does not exceed the QueueNumMax read.
Accepted(tr) ==
    /\ \E i \in Pos(tr, "R", "Status") : features_ok(tr[i].val)
    /\ \E i \in Pos(tr, "R", "QueueNumMax") : VIRTIO_RING_SIZE <= tr[i].val

\* C6: a finished call for an in-range address has returned true exactly
\* when the Status read back had FEATURES_OK and the ring size did not
\* exceed QueueNumMax; then the slot of the address holds a handle whose
\* queue is the region zalloc returned in this call, whose dev is the
\* address and whose idx and ack_used_idx are 0; otherwise the call made no
\* allocation and the slot is as it was before the call.
C6_TrueIffAccepted ==
    \A c \in Callers :
      (pc[c] = "done" /\ InRange(c)) =>
        /\ result[c] = Accepted(trace[c])
        /\ result[c] =>
              \E j \in Pos(trace[c], "zalloc", "pages") :
                 /\ Pos(trace[c], "zalloc", "pages") = {j}
                 /\ GPU_DEVICES[Idx(ptr[c])] =
                       [tag |-> "Some",
                        val |-> [queue |-> trace[c][j].val, dev |-> ptr[c],
                                 idx |-> 0, ack_used_idx |-> 0]]
        /\ ~result[c] =>
              /\ Pos(trace[c], "zalloc", "pages") = {}
              /\ GPU_DEVICES[Idx(ptr[c])] = pre[c][Idx(ptr[c])]

\* A call accepted with QueueNumMax equal to the ring size, registered.
C6_Witness ==
    \E c \in Callers :
      /\ pc[c] = "done"
      /\ InRange(c)
      /\ result[c] = TRUE
      /\ qnmax[c] = VIRTIO_RING_SIZE
      /\ GPU_DEVICES[Idx(ptr[c])] = Some(Device(queue_ptr[c], ptr[c]))
      /\ queue_ptr[c] # 0

(* -------------------------------- C7 ---------------------------------- *)

C8_OutOfRangeRejected ==
    \A c \in Callers :
      (Started(c) /\ ~InRange(c)) =>
        /\ pc[c] # "panic"
        /\ Pos(trace[c], "zalloc", "pages") = {}
        /\ Len(StatusWrites(trace[c])) <= 4
        /\ GPU_DEVICES = pre[c]

(* -------------------------------- C9 ---------------------------------- *)

\* The writes one device receives from a call running alone, given what the
\* device answered (hf, so, q) and what zalloc returned (qp): the straight
\* reading of setup_gpu_device from top to bottom.
IsolatedWrites(hf, so, q, qp) ==
    LET handshake == << <<"Status", 0>>, <<"Status", 1>>, <<"Status", 5>>,
                        <<"GuestFeatures", hf>>, <<"Status", 13>> >>
    IN IF ~features_ok(so) THEN handshake \o << <<"Status", 128>> >>
       ELSE IF q < VIRTIO_RING_SIZE THEN handshake \o << <<"QueueNum", VIRTIO_RING_SIZE>> >>
       ELSE handshake \o
            << <<"QueueNum", VIRTIO_RING_SIZE>>, <<"QueueSel", 0>>,
               <<"GuestPageSize", 4096>>, <<"QueuePfn", qp % 1048576>>,
               <<"Status", 13>> >>

\* The result of that call running alone.
IsolatedResult(so, q) == features_ok(so) /\ q >= VIRTIO_RING_SIZE

\* c's call is the latest call made for its address.
OwnAddress(c) == owner[ptr[c]] = c

\* C9: whatever the interleaving, a finished call on an in-range address
\* that no later call negotiates has the result it has alone, its device
\* has received exactly the writes it receives from that call alone, and
\* its slot holds what the call alone leaves there: its own handle on
\* success, the slot's previous content on failure (None when the address
\* never succeeded).
C9_InterleavingIndependence ==
    \A c \in Callers :
      (pc[c] = "done" /\ InRange(c) /\ OwnAddress(c)) =>
        /\ result[c] = IsolatedResult(status_ok[c], qnmax[c])
        /\ seen[ptr[c]] = IsolatedWrites(host_features[c], status_ok[c], qnmax[c], queue_ptr[c])
        /\ GPU_DEVICES[Idx(ptr[c])] =
              IF result[c] THEN Some(Device(queue_ptr[c], ptr[c])) ELSE pre[c][Idx(ptr[c])]
        /\ (~result[c] /\ ptr[c] \notin succeeded) => GPU_DEVICES[Idx(ptr[c])] = None

\* Two calls that overlapped (each began before the other registered), on
\* two in-range addresses, both finished, one of them registered.
C9_Witness ==
    /\ \A c \in Callers : pc[c] = "done" /\ InRange(c) /\ pre[c] = [i \in Slots |-> None]
    /\ ptr[1] # ptr[2]
    /\ result[1] = TRUE
    /\ result[2] = TRUE
    /\ GPU_DEVICES[Idx(ptr[1])] = Some(Device(queue_ptr[1], ptr[1]))
    /\ GPU_DEVICES[Idx(ptr[2])] = Some(Device(queue_ptr[2], ptr[2]))

(* -------------------------------- C10 --------------------------------- *)

\* The class a consumer switching on the command type gives a wire value.
CtrlClass(v) ==
    CASE 256 <= v /\ v <= 266 -> "cmd2d"
      [] 768 <= v /\ v <= 769 -> "cursor"
      [] 4352 <= v /\ v <= 4356 -> "success"
      [] 4608 <= v /\ v <= 4613 -> "error"
      [] OTHER -> "unknown"

\* The group of the declaration (the comments of enum CtrlType) a variant is in.
CtrlGroup(i) ==
    IF i <= 11 THEN "cmd2d"
    ELSE IF i <= 13 THEN "cursor"
    ELSE IF i <= 18 THEN "success"
    ELSE "error"

\* C10: every CtrlType value lies in one of the four ranges, the one of its
\* group; two different variants have different values;
\* RespErrInvalidResourceId is 0x1203, an error, and differs from
\* RespErrInvalidScanoutId, 0x1202.
C10_CtrlTypeRanges ==
    ct_out # << >> =>
      /\ \A k \in 1 .. 2 : CtrlClass(ct_out[k]) = CtrlGroup(ct_in[k])
      /\ ct_in[1] # ct_in[2] => ct_out[1] # ct_out[2]
      /\ ct_in[1] = VariantIdx("RespErrInvalidResourceId") =>
            /\ ct_out[1] = 4611
            /\ CtrlClass(ct_out[1]) = "error"
      /\ ct_in[2] = VariantIdx("RespErrInvalidScanoutId") => ct_out[2] = 4610

C10_Witness ==
    /\ ct_in = << VariantIdx("RespErrInvalidResourceId"), VariantIdx("RespErrInvalidScanoutId") >>
    /\ ct_out = << 4611, 4610 >>

(* -------------------------------- C11 --------------------------------- *)

\* The first n elements of a sequence (all of it when shorter).
Prefix(w, n) == SubSeq(w, 1, IF Len(w) < n THEN Len(w) ELSE n)

\* C11: the first four Status writes of a call are, in this order, 0,
\* ACKNOWLEDGE, ACKNOWLEDGE|DRIVER and ACKNOWLEDGE|DRIVER|FEATURES_OK, and
\* Status is read only after the fourth.
C11_HandshakeOrder ==
    \A c \in Callers :
      LET w == StatusWrites(trace[c])
          required == << 0, Acknowledge, BitOr(Acknowledge, Driver),
                         BitOr(BitOr(Acknowledge, Driver), FeaturesOk) >>
      IN /\ Prefix(w, 4) = Prefix(required, Len(w))
         /\ \A i \in Pos(trace[c], "R", "Status") :
               Cardinality({ k \in Pos(trace[c], "W", "Status") : k < i }) = 4

(* -------------------------------- C12 --------------------------------- *)

\* The registers of the queue configuration.
QueueRegs == {"QueueSel", "QueueNum", "GuestPageSize", "QueuePfn"}

\* C12: a Status write carrying DRIVER_OK comes only after QueueSel,
\* QueueNum, GuestPageSize and QueuePfn have all been written, and the
\* Status write before it did not carry DRIVER_OK.
C12_DriverOkOnlyWhenLive ==
    \A c \in Callers :
      \A k \in Pos(trace[c], "W", "Status") :
        BitAnd(trace[c][k].val, DriverOk) # 0 =>
          /\ \A r \in QueueRegs : \E j \in Pos(trace[c], "W", r) : j < k
          /\ \A j \in Pos(trace[c], "W", "Status") :
                j < k => BitAnd(trace[c][j].val, DriverOk) = 0

(* -------------------------------- C13 --------------------------------- *)

\* Every bit of a is a bit of b.
Contains(b, a) == BitAnd(b, a) = a

\* C13 (as claimed): of two consecutive Status writes of a call, the later
\* is 0 or contains every bit of the earlier.
C13_StatusCumulative ==
    \A c \in Callers :
      LET w == StatusWrites(trace[c])
      IN \A k \in 1 .. (Len(w) - 1) : w[k + 1] = 0 \/ Contains(w[k + 1], w[k])

\* C13 (amended): of two consecutive Status writes of a call, the later is
\* 0 or contains every bit of the earlier, except the write that follows a
\* read-back without FEATURES_OK: that write, the last of the call, is
\* FAILED alone.
C13_StatusCumulativeButFailed ==
    \A c \in Callers :
      LET w == StatusWrites(trace[c])
          rejected == \E i \in Pos(trace[c], "R", "Status") : ~features_ok(trace[c][i].val)
      IN /\ \A k \in 1 .. (Len(w) - 1) :
               \/ w[k + 1] = 0
               \/ Contains(w[k + 1], w[k])
               \/ (rejected /\ k + 1 = Len(w) /\ w[k + 1] = Failed)
         /\ (rejected /\ pc[c] = "done") => (w[Len(w)] = Failed /\ ~Contains(w[Len(w)], w[Len(w) - 1]))
         /\ (~rejected /\ Len(w) > 1) => Contains(w[Len(w)], w[Len(w) - 1])

\* A registered call (five cumulative Status writes) after a rejected one.
C13_Witness ==
    \E c \in Callers :
      /\ pc[c] = "done"
      /\ result[c] = TRUE
      /\ Len(StatusWrites(trace[c])) = 5
      /\ \E a \in Addrs : mmio[a]["Status"] = Failed

(* -------------------------------- C14 --------------------------------- *)

\* C14: in a call whose read-back had FEATURES_OK, QueueSel = 0 is written
\* before QueueNumMax is read and before QueueNum is written.
C14_QueueSelFirst ==
    \A c \in Callers :
      \A i \in Pos(trace[c], "R", "QueueNumMax") \cup Pos(trace[c], "W", "QueueNum") :
        \E j \in Pos(trace[c], "W", "QueueSel") : j < i /\ trace[c][j].val = 0

(* -------------------------------- C15 --------------------------------- *)

\* C15: QueueNum is written only in a call that read a QueueNumMax not
\* smaller than the ring size.
C15_QueueNumOnlyIfFits ==
    \A c \in Callers :
      \A j \in Pos(trace[c], "W", "QueueNum") :
        \E i \in Pos(trace[c], "R", "QueueNumMax") :
          i < j /\ VIRTIO_RING_SIZE <= trace[c][i].val

(* -------------------------------- C16 --------------------------------- *)

\* C16: a call writes QueuePfn right after GuestPageSize = PAGE_SIZE, and
\* the value is the frame number of the region zalloc returned (its address
\* divided by PAGE_SIZE), also for a region above 4 GiB.
C16_QueuePfnIsFrameNumber ==
    \A c \in Callers :
      \A j \in Pos(trace[c], "W", "QueuePfn") :
        /\ j > 1
        /\ trace[c][j - 1] = Ev("W", "GuestPageSize", PAGE_SIZE)
        /\ \E a \in Pos(trace[c], "zalloc", "pages") :
              a < j /\ trace[c][j].val = trace[c][a].val

(* -------------------------------- C17 --------------------------------- *)

\* C17: when a call for an address whose slot was occupied has returned
\* true, the slot holds the handle built in this call and nothing of the
\* old one (its queue is this call's region, a region the old handle did
\* not have unless both are null; idx and ack_used_idx are 0), and the 7
\* other slots are as they were when the call began.
C17_Supersedes ==
    \A c \in Callers :
      (pc[c] = "done" /\ result[c] = TRUE /\ InRange(c)
         /\ pre[c][Idx(ptr[c])] # None) =>
        LET i == Idx(ptr[c])
            new == GPU_DEVICES[i]
            old == pre[c][i]
        IN /\ new = [tag |-> "Some",
                     val |-> [queue |-> queue_ptr[c], dev |-> ptr[c],
                              idx |-> 0, ack_used_idx |-> 0]]
           /\ \E a \in Pos(trace[c], "zalloc", "pages") : trace[c][a].val = new.val.queue
           /\ new.val.queue # 0 => new.val.queue # old.val.queue
           /\ \A k \in Slots \ {i} : GPU_DEVICES[k] = pre[c][k]

\* A second successful call for one address, with a new region.
C17_Witness ==
    \E c \in Callers :
      /\ pc[c] = "done"
      /\ result[c] = TRUE
      /\ InRange(c)
      /\ pre[c][Idx(ptr[c])] # None
      /\ pre[c][Idx(ptr[c])].val.queue # 0
      /\ GPU_DEVICES[Idx(ptr[c])].val.queue # 0
      /\ GPU_DEVICES[Idx(ptr[c])] # pre[c][Idx(ptr[c])]

(* -------------------------------- C18 --------------------------------- *)

\* The register accesses of a trace.
Accesses(tr) == { i \in DOMAIN tr : tr[i].op \in {"R", "W"} }

\* C18: a call never ends without a result (it does not panic), makes at
\* most 13 register accesses (those of the longest path through
\* setup_gpu_device), reads Status at most once and QueueNumMax at most once.
C18_AlwaysReturns ==
    \A c \in Callers :
      /\ pc[c] # "panic"
      /\ Cardinality(Accesses(trace[c])) <= 13
      /\ Cardinality(Pos(trace[c], "R", "Status")) <= 1
      /\ Cardinality(Pos(trace[c], "R", "QueueNumMax")) <= 1

(* -------------------------------- C19 --------------------------------- *)

\* No call is in progress.
Quiescent == \A c \in Callers : ~Running(c)

\* C19: between calls, for every slot that holds a handle, the last Status
\* written to the handle's device has FEATURES_OK and DRIVER_OK and not
\* FAILED, and the last QueuePfn written to it is the frame number of the
\* handle's queue.
C19_RegistryMatchesDevice ==
    Quiescent =>
      \A i \in Slots :
        GPU_DEVICES[i] # None =>
          LET h == GPU_DEVICES[i].val
          IN /\ features_ok(mmio[h.dev]["Status"])
             /\ BitAnd(mmio[h.dev]["Status"], DriverOk) # 0
             /\ BitAnd(mmio[h.dev]["Status"], Failed) = 0
             /\ mmio[h.dev]["QueuePfn"] = h.queue

(* -------------------------------- C20 --------------------------------- *)

\* C20: a call whose zalloc returned null writes no QueuePfn and no further
\* Status, and no slot ever holds a handle with a null queue.
C20_NoNullQueue ==
    /\ \A c \in Callers :
         \A a \in Pos(trace[c], "zalloc", "pages") :
           trace[c][a].val = 0 =>
             \A j \in Pos(trace[c], "W", "QueuePfn") \cup Pos(trace[c], "W", "Status") : j < a
    /\ \A i \in Slots : GPU_DEVICES[i] # None => GPU_DEVICES[i].val.queue # 0

====
